---- MODULE Spec2Model ----
(***************************************************************************)
(* Model of the flame-speed driver flamespeed.cpp: main() reads the run    *)
(* parameters, flamespeed() computes the adiabatic flame temperature,      *)
(* builds the inlet / flow / outlet domains on a 6-point grid, solves the  *)
(* flame in two stages (stage 1 without, stage 2 with the electric field)  *)
(* and writes the gap-voltage record, the profile table and the solution   *)
(* snapshot.                                                               *)
(*                                                                         *)
(* Units: positions are integers in units of 0.005 m (lz = 0.1 m = 20),    *)
(* temperatures in K, velocities in units of 0.1 m/s.  A double that may   *)
(* be the quiet NaN is a record [nan, val].                                *)
(*                                                                         *)
(* The one-dimensional solver (Sim1D::solve, the refiner, the initial      *)
(* guess, gapVoltage, the thermo provider) is library code that the driver *)
(* calls; it is modelled from the design document: Newton updates change   *)
(* the unknown vector in place, refinement bisects one interval at a time, *)
(* and every call may end in a CanteraError.                               *)
(***************************************************************************)
EXTENDS Integers, Sequences, FiniteSets

VARIABLES
    argc, argv, stdin,          \* the invocation: argument count, parsed argv[1..], values typed on stdin
    pc,                         \* position in main() / flamespeed()
    phi, eField, refine_grid, loglevel,   \* the parameters main() passes to flamespeed()
    Tad, printedTad,            \* adiabatic flame temperature and whether line 44 printed it
    grid, X,                    \* flow-domain grid and unknown vector (one record per grid point)
    spc, nNewton,               \* solver position inside flame.solve and Newton updates done in it
    stage, inletEField,         \* flow.setSolvingStage / inlet.setEField
    V_gap, Evec, Vvec,          \* lines 138-155
    zvec, Tvec, Elevec, eFieldvec, Uvec,   \* line 173
    gapFile, profileFile, snapshot,        \* the three output files
    ret,                        \* return value of flamespeed(): "none" while running
    failedStage,                \* 0, or the stage whose solve threw a CanteraError
    stage1Grid, stage1X         \* record of the state at which the stage 1 solve returned

vars == <<argc, argv, stdin, pc, phi, eField, refine_grid, loglevel, Tad, printedTad,
          grid, X, spc, nNewton, stage, inletEField, V_gap, Evec, Vvec,
          zvec, Tvec, Elevec, eFieldvec, Uvec, gapFile, profileFile, snapshot,
          ret, failedStage, stage1Grid, stage1X>>

----------------------------------------------------------------------------
(* Bounds of the model *)

\* Newton updates one call of flame.solve may apply before it converges or fails
MaxNewton == 1
\* the configured maximum number of grid points of the flow domain
MaxPoints == 7

\* values the equivalence ratio and the field strength are drawn from
PhiVals == {0, 1}
EFieldVals == {0, 2}

----------------------------------------------------------------------------
(* Program constants *)

temp == 300
uin == 3
nz == 6
lz == 20

\* locs{0.0, 0.3, 0.7, 1.0}, in tenths of the domain length
locs == <<0, 3, 7, 10>>

Components == {"T", "velocity", "E", "eField"}

NaN == [nan |-> TRUE, val |-> 0]
Num(v) == [nan |-> FALSE, val |-> v]

NoFile == [written |-> FALSE, rows |-> <<>>]
NoSnapshot == [written |-> FALSE, grid |-> <<>>, X |-> <<>>]

----------------------------------------------------------------------------
(* main(): lines 217-241 *)

\* the invocations: argc - 1 arguments on the command line, the rest of the
\* required values (phi, eField) typed on standard input
Invocations ==
    { [argc |-> n,
       argv |-> SubSeq(<<p, e, r, 0>>, 1, n - 1),
       stdin |-> SubSeq(<<p, e>>, n, 2)] :
         n \in 1..5, p \in PhiVals, e \in EFieldVals, r \in {0, 1} }

Init ==
    /\ \E inv \in Invocations :
          /\ argc = inv.argc
          /\ argv = inv.argv
          /\ stdin = inv.stdin
    /\ pc = "main"
    /\ phi = 0 /\ eField = 0 /\ refine_grid = TRUE /\ loglevel = 1
    /\ Tad = 0 /\ printedTad = FALSE
    /\ grid = <<>> /\ X = <<>>
    /\ spc = "idle" /\ nNewton = 0
    /\ stage = 0 /\ inletEField = 0
    /\ V_gap = Num(0) /\ Evec = <<>> /\ Vvec = <<>>
    /\ zvec = <<>> /\ Tvec = <<>> /\ Elevec = <<>> /\ eFieldvec = <<>> /\ Uvec = <<>>
    /\ gapFile = NoFile /\ profileFile = NoFile /\ snapshot = NoSnapshot
    /\ ret = "none"
    /\ failedStage = 0
    /\ stage1Grid = <<>> /\ stage1X = <<>>

\* lines 222-240: a value missing from the command line is read from standard
\* input; refine_grid and loglevel keep their defaults
Main ==
    /\ pc = "main"
    /\ phi' = IF argc >= 2 THEN argv[1] ELSE Head(stdin)
    /\ eField' = IF argc >= 3 THEN argv[2] ELSE stdin[Len(stdin)]
    /\ refine_grid' = IF argc >= 4 THEN argv[3] # 0 ELSE TRUE
    /\ loglevel' = IF argc >= 5 THEN argv[4] ELSE 1
    /\ pc' = "thermo"
    /\ UNCHANGED <<argc, argv, stdin, Tad, printedTad, grid, X, spc, nNewton, stage,
                   inletEField, V_gap, Evec, Vvec, zvec, Tvec, Elevec, eFieldvec, Uvec,
                   gapFile, profileFile, snapshot, ret, failedStage, stage1Grid, stage1X>>

----------------------------------------------------------------------------
(* flamespeed(): thermo set-up and construction of the domains, lines 21-133 *)

\* catch (CanteraError&) of lines 209-213: diagnostic on stderr, return -1
OuterCatch ==
    /\ pc' = "done"
    /\ ret' = "-1"

\* adiabatic flame temperature of the mixture at equivalence ratio p
\* (gas->equilibrate("HP"); gas->temperature()): a property of the provider
TadOf(p) == IF p > 0 THEN 2200 ELSE temp

\* ThermoSetup with the print of Tad left to the end of the run (line 191)
ThermoSetup_PrintsLate ==
    /\ pc = "thermo"
    /\ Tad' = TadOf(phi)
    /\ pc' = "build"
    /\ UNCHANGED <<argc, argv, stdin, phi, eField, refine_grid, loglevel, printedTad, grid,
                   X, spc, nNewton, stage, inletEField, V_gap, Evec, Vvec, zvec, Tvec,
                   Elevec, eFieldvec, Uvec, gapFile, profileFile, snapshot, ret,
                   failedStage, stage1Grid, stage1X>>

\* lines 21-44: the provider accepts the mixture, Tad is computed and printed
ThermoSetup ==
    /\ pc = "thermo"
    /\ Tad' = TadOf(phi)
    /\ printedTad' = TRUE
    /\ pc' = "build"
    /\ UNCHANGED <<argc, argv, stdin, phi, eField, refine_grid, loglevel, grid, X, spc,
                   nNewton, stage, inletEField, V_gap, Evec, Vvec, zvec, Tvec, Elevec,
                   eFieldvec, Uvec, gapFile, profileFile, snapshot, ret, failedStage,
                   stage1Grid, stage1X>>

\* ThermoFail with the exception swallowed: the run goes on to build the domains
ThermoFail_Swallowed ==
    /\ pc = "thermo"
    /\ pc' = "build"
    /\ UNCHANGED <<argc, argv, stdin, phi, eField, refine_grid, loglevel, Tad, printedTad,
                   grid, X, spc, nNewton, stage, inletEField, V_gap, Evec, Vvec, zvec, Tvec,
                   Elevec, eFieldvec, Uvec, gapFile, profileFile, snapshot, ret,
                   failedStage, stage1Grid, stage1X>>

\* lines 21-43: newSolution / setEquivalenceRatio / equilibrate throws
ThermoFail ==
    /\ pc = "thermo"
    /\ OuterCatch
    /\ UNCHANGED <<argc, argv, stdin, phi, eField, refine_grid, loglevel, Tad, printedTad,
                   grid, X, spc, nNewton, stage, inletEField, V_gap, Evec, Vvec, zvec, Tvec,
                   Elevec, eFieldvec, Uvec, gapFile, profileFile, snapshot, failedStage,
                   stage1Grid, stage1X>>

\* InitialGrid with the spacing taken over nz instead of nz - 1 intervals
InitialGrid_WrongSpacing ==
    LET dz == lz \div nz
    IN  [iz \in 1..nz |-> (iz - 1) * dz]

\* lines 56-62: z[iz] = iz * dz with dz = lz / (nz - 1)
InitialGrid ==
    LET dz == lz \div (nz - 1)
    IN  [iz \in 1..nz |-> (iz - 1) * dz]

\* Sim1D::setInitialGuess: piecewise-linear interpolation of the values vs given
\* at the relative locations locs, evaluated at position z of a domain of length lz
LinInterp(vs, z) ==
    LET zs == [k \in 1..Len(locs) |-> (locs[k] * lz) \div 10]
        k  == CHOOSE j \in 1..(Len(locs) - 1) : zs[j] <= z /\ z <= zs[j + 1]
    IN  vs[k] + ((vs[k + 1] - vs[k]) * (z - zs[k])) \div (zs[k + 1] - zs[k])

\* lines 98-110: velocity goes from uin to uout = mdot / rho_out, T from temp to Tad
InitialGuess(g, TadV) ==
    LET uout == (uin * TadV) \div temp
    IN  [n \in 1..Len(g) |->
            [T        |-> LinInterp(<<temp, temp, TadV, TadV>>, g[n]),
             velocity |-> LinInterp(<<uin, uin, uout, uout>>, g[n]),
             E        |-> 0,
             eField   |-> 0]]

\* lines 51-133: the flow, inlet and outlet are built, the grid is set up and
\* the initial guess is laid on it
BuildDomains ==
    /\ pc = "build"
    /\ grid' = InitialGrid
    /\ X' = InitialGuess(InitialGrid, Tad)
    /\ pc' = "setStage1"
    /\ UNCHANGED <<argc, argv, stdin, phi, eField, refine_grid, loglevel, Tad, printedTad,
                   spc, nNewton, stage, inletEField, V_gap, Evec, Vvec, zvec, Tvec, Elevec,
                   eFieldvec, Uvec, gapFile, profileFile, snapshot, ret, failedStage,
                   stage1Grid, stage1X>>

\* line 69: newTransportMgr throws, after the grid was set up at line 64
BuildFail ==
    /\ pc = "build"
    /\ grid' = InitialGrid
    /\ OuterCatch
    /\ UNCHANGED <<argc, argv, stdin, phi, eField, refine_grid, loglevel, Tad, printedTad,
                   X, spc, nNewton, stage, inletEField, V_gap, Evec, Vvec, zvec, Tvec,
                   Elevec, eFieldvec, Uvec, gapFile, profileFile, snapshot, failedStage,
                   stage1Grid, stage1X>>

----------------------------------------------------------------------------
(* flame.solve(loglevel, refine_grid): the staged Newton / refinement loop *)

\* components whose equations are active in a stage: the electric-field
\* equation is inert in stage 1
ActiveComponents(st) ==
    IF st = 2 THEN Components ELSE {"T", "velocity"}

\* one damped Newton update of component c: the inlet point keeps its Dirichlet
\* values (in stage 2 the applied field strength), every other point moves
NewtonUpdate(x, c, st, inletE) ==
    [n \in 1..Len(x) |->
        IF n = 1
        THEN IF st = 2 THEN [x[1] EXCEPT !.eField = inletE] ELSE x[1]
        ELSE [x[n] EXCEPT ![c] = @ + 1]]

\* the grid g with the midpoint of interval i inserted after point i
InsertMid(g, i) ==
    [n \in 1..(Len(g) + 1) |->
        IF n <= i THEN g[n]
        ELSE IF n = i + 1 THEN (g[i] + g[i + 1]) \div 2
        ELSE g[n - 1]]

\* the solution re-interpolated onto InsertMid(g, i): the new point takes the
\* mean of its two neighbours
InterpMid(x, i) ==
    [n \in 1..(Len(x) + 1) |->
        IF n <= i THEN x[n]
        ELSE IF n = i + 1
             THEN [c \in Components |-> (x[i][c] + x[i + 1][c]) \div 2]
             ELSE x[n - 1]]

\* intervals the refiner may bisect: wide enough to hold a new point
Refinable(g) == { i \in 1..(Len(g) - 1) : g[i + 1] - g[i] >= 2 }

Solving == pc \in {"solve1", "solve2"}

\* NewtonIterating: a damped Newton update of the unknown vector, in place
NewtonStep ==
    /\ Solving
    /\ spc = "newton"
    /\ nNewton < MaxNewton
    /\ \E c \in ActiveComponents(stage) :
          X' = NewtonUpdate(X, c, stage, inletEField)
    /\ nNewton' = nNewton + 1
    /\ UNCHANGED <<argc, argv, stdin, pc, phi, eField, refine_grid, loglevel, Tad,
                   printedTad, grid, spc, stage, inletEField, V_gap, Evec, Vvec, zvec,
                   Tvec, Elevec, eFieldvec, Uvec, gapFile, profileFile, snapshot, ret,
                   failedStage, stage1Grid, stage1X>>

\* NewtonIterating -> Converged
NewtonConverged ==
    /\ Solving
    /\ spc = "newton"
    /\ spc' = "converged"
    /\ UNCHANGED <<argc, argv, stdin, pc, phi, eField, refine_grid, loglevel, Tad,
                   printedTad, grid, X, nNewton, stage, inletEField, V_gap, Evec, Vvec,
                   zvec, Tvec, Elevec, eFieldvec, Uvec, gapFile, profileFile, snapshot,
                   ret, failedStage, stage1Grid, stage1X>>

\* Converged -> Refining -> NewtonIterating: a point is inserted in an interval
\* that violates the criteria, while the grid is below its maximum size
Refine ==
    /\ Solving
    /\ spc = "converged"
    /\ refine_grid
    /\ Len(grid) < MaxPoints
    /\ \E i \in Refinable(grid) :
          /\ grid' = InsertMid(grid, i)
          /\ X' = InterpMid(X, i)
    /\ spc' = "newton"
    /\ UNCHANGED <<argc, argv, stdin, pc, phi, eField, refine_grid, loglevel, Tad,
                   printedTad, nNewton, stage, inletEField, V_gap, Evec, Vvec, zvec,
                   Tvec, Elevec, eFieldvec, Uvec, gapFile, profileFile, snapshot, ret,
                   failedStage, stage1Grid, stage1X>>

\* flame.solve returns: converged and no further refinement
SolveReturns == Solving /\ spc = "converged"

\* flame.solve throws CanteraError: Newton and the time-stepping fallback are
\* exhausted, a provider reports an unphysical state, or the refiner wants a
\* point the maximum grid size does not allow
SolveThrows ==
    /\ Solving
    /\ \/ spc = "newton"
       \/ spc = "converged" /\ refine_grid /\ Len(grid) >= MaxPoints

\* Sim1D::gapVoltage: the potential difference the field solution implies
\* across the flow domain
RECURSIVE GapSum(_, _, _)
GapSum(g, x, n) ==
    IF n >= Len(g) THEN 0
    ELSE x[n].eField * (g[n + 1] - g[n]) + GapSum(g, x, n + 1)

gapVoltage == GapSum(grid, X, 1)

----------------------------------------------------------------------------
(* flamespeed(): the two-stage schedule, lines 135-152 *)

\* SetStage1 with the field strength applied at the inlet before stage 1
SetStage1_FieldApplied ==
    /\ pc = "setStage1"
    /\ stage' = 1
    /\ inletEField' = eField
    /\ pc' = "solve1"
    /\ spc' = "newton"
    /\ nNewton' = 0
    /\ UNCHANGED <<argc, argv, stdin, phi, eField, refine_grid, loglevel, Tad, printedTad,
                   grid, X, V_gap, Evec, Vvec, zvec, Tvec, Elevec, eFieldvec, Uvec,
                   gapFile, profileFile, snapshot, ret, failedStage, stage1Grid, stage1X>>

\* line 135: flow.setSolvingStage(1), and flame.solve of line 136 begins
SetStage1 ==
    /\ pc = "setStage1"
    /\ stage' = 1
    /\ pc' = "solve1"
    /\ spc' = "newton"
    /\ nNewton' = 0
    /\ UNCHANGED <<argc, argv, stdin, phi, eField, refine_grid, loglevel, Tad, printedTad,
                   grid, X, inletEField, V_gap, Evec, Vvec, zvec, Tvec, Elevec, eFieldvec,
                   Uvec, gapFile, profileFile, snapshot, ret, failedStage, stage1Grid,
                   stage1X>>

\* Stage1Converged with the snapshot saved right after the stage 1 solve
Stage1Converged_Saves ==
    /\ pc = "solve1"
    /\ SolveReturns
    /\ pc' = "setEField"
    /\ spc' = "idle"
    /\ stage1Grid' = grid
    /\ stage1X' = X
    /\ snapshot' = [written |-> TRUE, grid |-> grid, X |-> X]
    /\ UNCHANGED <<argc, argv, stdin, phi, eField, refine_grid, loglevel, Tad, printedTad,
                   grid, X, nNewton, stage, inletEField, V_gap, Evec, Vvec, zvec, Tvec,
                   Elevec, eFieldvec, Uvec, gapFile, profileFile, ret, failedStage>>

\* line 136: the stage 1 solve returns
Stage1Converged ==
    /\ pc = "solve1"
    /\ SolveReturns
    /\ pc' = "setEField"
    /\ spc' = "idle"
    /\ stage1Grid' = grid
    /\ stage1X' = X
    /\ UNCHANGED <<argc, argv, stdin, phi, eField, refine_grid, loglevel, Tad, printedTad,
                   grid, X, nNewton, stage, inletEField, V_gap, Evec, Vvec, zvec, Tvec,
                   Elevec, eFieldvec, Uvec, gapFile, profileFile, snapshot, ret,
                   failedStage>>

\* line 136 throws: the exception leaves the try block of line 20 and is caught
\* at line 209
Stage1Failed ==
    /\ pc = "solve1"
    /\ SolveThrows
    /\ OuterCatch
    /\ spc' = "idle"
    /\ failedStage' = 1
    /\ UNCHANGED <<argc, argv, stdin, phi, eField, refine_grid, loglevel, Tad, printedTad,
                   grid, X, nNewton, stage, inletEField, V_gap, Evec, Vvec, zvec, Tvec,
                   Elevec, eFieldvec, Uvec, gapFile, profileFile, snapshot, stage1Grid,
                   stage1X>>

\* line 142: inlet.setEField(eField)
SetEField ==
    /\ pc = "setEField"
    /\ inletEField' = eField
    /\ pc' = "setStage2"
    /\ UNCHANGED <<argc, argv, stdin, phi, eField, refine_grid, loglevel, Tad, printedTad,
                   grid, X, spc, nNewton, stage, V_gap, Evec, Vvec, zvec, Tvec, Elevec,
                   eFieldvec, Uvec, gapFile, profileFile, snapshot, ret, failedStage,
                   stage1Grid, stage1X>>

\* line 144: flow.setSolvingStage(2), and flame.solve of line 146 begins
SetStage2 ==
    /\ pc = "setStage2"
    /\ stage' = 2
    /\ pc' = "solve2"
    /\ spc' = "newton"
    /\ nNewton' = 0
    /\ UNCHANGED <<argc, argv, stdin, phi, eField, refine_grid, loglevel, Tad, printedTad,
                   grid, X, inletEField, V_gap, Evec, Vvec, zvec, Tvec, Elevec, eFieldvec,
                   Uvec, gapFile, profileFile, snapshot, ret, failedStage, stage1Grid,
                   stage1X>>

\* lines 146-147: the stage 2 solve returns and V_gap = flame.gapVoltage()
Stage2Converged ==
    /\ pc = "solve2"
    /\ SolveReturns
    /\ V_gap' = Num(gapVoltage)
    /\ pc' = "record"
    /\ spc' = "idle"
    /\ UNCHANGED <<argc, argv, stdin, phi, eField, refine_grid, loglevel, Tad, printedTad,
                   grid, X, nNewton, stage, inletEField, Evec, Vvec, zvec, Tvec, Elevec,
                   eFieldvec, Uvec, gapFile, profileFile, snapshot, ret, failedStage,
                   stage1Grid, stage1X>>

\* Stage2Catch without the inner try block: the exception reaches line 209
Stage2Catch_Rethrow ==
    /\ V_gap' = V_gap
    /\ OuterCatch

\* lines 148-152: the inner catch; the run goes on with V_gap = quiet NaN
Stage2Catch ==
    /\ V_gap' = NaN
    /\ pc' = "record"
    /\ ret' = ret

\* line 146 throws inside the inner try block
Stage2Failed ==
    /\ pc = "solve2"
    /\ SolveThrows
    /\ Stage2Catch
    /\ spc' = "idle"
    /\ failedStage' = 2
    /\ UNCHANGED <<argc, argv, stdin, phi, eField, refine_grid, loglevel, Tad, printedTad,
                   grid, X, nNewton, stage, inletEField, Evec, Vvec, zvec, Tvec, Elevec,
                   eFieldvec, Uvec, gapFile, profileFile, snapshot, stage1Grid, stage1X>>

\* line 147 throws inside the inner try block, after the solve returned
GapVoltageFailed ==
    /\ pc = "solve2"
    /\ SolveReturns
    /\ Stage2Catch
    /\ spc' = "idle"
    /\ failedStage' = 2
    /\ UNCHANGED <<argc, argv, stdin, phi, eField, refine_grid, loglevel, Tad, printedTad,
                   grid, X, nNewton, stage, inletEField, Evec, Vvec, zvec, Tvec, Elevec,
                   eFieldvec, Uvec, gapFile, profileFile, snapshot, stage1Grid, stage1X>>

----------------------------------------------------------------------------
(* flamespeed(): the outputs, lines 154-206 *)

\* lines 154-155: Evec.push_back(eField); Vvec.push_back(V_gap)
Record ==
    /\ pc = "record"
    /\ Evec' = Append(Evec, eField)
    /\ Vvec' = Append(Vvec, V_gap)
    /\ pc' = "writeGap"
    /\ UNCHANGED <<argc, argv, stdin, phi, eField, refine_grid, loglevel, Tad, printedTad,
                   grid, X, spc, nNewton, stage, inletEField, V_gap, zvec, Tvec, Elevec,
                   eFieldvec, Uvec, gapFile, profileFile, snapshot, ret, failedStage,
                   stage1Grid, stage1X>>

\* GapRows with the loop started one element late
GapRows_SkipsFirst(ev, vv) ==
    [n \in 1..(Len(ev) - 1) |-> [eField |-> ev[n + 1], gapVoltage |-> vv[n + 1]]]

\* lines 167-169: one row (Evec[n], Vvec[n]) for every n below Evec.size()
GapRows(ev, vv) ==
    [n \in 1..Len(ev) |-> [eField |-> ev[n], gapVoltage |-> vv[n]]]

\* lines 163-170: the gap-voltage record is opened (truncating) and written
WriteGapFile ==
    /\ pc = "writeGap"
    /\ gapFile' = [written |-> TRUE, rows |-> GapRows(Evec, Vvec)]
    /\ pc' = "extract"
    /\ UNCHANGED <<argc, argv, stdin, phi, eField, refine_grid, loglevel, Tad, printedTad,
                   grid, X, spc, nNewton, stage, inletEField, V_gap, Evec, Vvec, zvec,
                   Tvec, Elevec, eFieldvec, Uvec, profileFile, snapshot, ret, failedStage,
                   stage1Grid, stage1X>>

\* lines 177-189: flame.workValue(flowdomain, componentIndex(c), n) for every
\* n below flow.nPoints()
ExtractComponent(x, c, nPoints) ==
    [n \in 1..nPoints |-> x[n][c]]

\* line 185: zvec.push_back(flow.grid(n))
ExtractGrid(g, nPoints) ==
    [n \in 1..nPoints |-> g[n]]

\* lines 173-189: the profile arrays are filled from the solver's present state
Extract ==
    /\ pc = "extract"
    /\ Tvec' = ExtractComponent(X, "T", Len(grid))
    /\ Elevec' = ExtractComponent(X, "E", Len(grid))
    /\ eFieldvec' = ExtractComponent(X, "eField", Len(grid))
    /\ Uvec' = ExtractComponent(X, "velocity", Len(grid))
    /\ zvec' = ExtractGrid(grid, Len(grid))
    /\ pc' = "writeProfile"
    /\ UNCHANGED <<argc, argv, stdin, phi, eField, refine_grid, loglevel, Tad, printedTad,
                   grid, X, spc, nNewton, stage, inletEField, V_gap, Evec, Vvec, gapFile,
                   profileFile, snapshot, ret, failedStage, stage1Grid, stage1X>>

\* ProfileRow with the temperature and velocity columns exchanged
ProfileRow_Swapped(n) ==
    <<grid[n], Uvec[n], Tvec[n], Elevec[n], eFieldvec[n]>>

\* lines 198-201: the row of grid point n: Grid, Temperature, Uvec, E, eField
ProfileRow(n) ==
    <<grid[n], Tvec[n], Uvec[n], Elevec[n], eFieldvec[n]>>

\* lines 194-202: the profile table is opened (truncating) and written
WriteProfile ==
    /\ pc = "writeProfile"
    /\ profileFile' = [written |-> TRUE,
                       rows |-> [n \in 1..Len(grid) |-> ProfileRow(n)]]
    /\ pc' = "save"
    /\ UNCHANGED <<argc, argv, stdin, phi, eField, refine_grid, loglevel, Tad, printedTad,
                   grid, X, spc, nNewton, stage, inletEField, V_gap, Evec, Vvec, zvec,
                   Tvec, Elevec, eFieldvec, Uvec, gapFile, snapshot, ret, failedStage,
                   stage1Grid, stage1X>>

\* lines 204-206 and 214: flame.save writes the snapshot, flamespeed returns 0
Save ==
    /\ pc = "save"
    /\ snapshot' = [written |-> TRUE, grid |-> grid, X |-> X]
    /\ pc' = "done"
    /\ ret' = "0"
    /\ UNCHANGED <<argc, argv, stdin, phi, eField, refine_grid, loglevel, Tad, printedTad,
                   grid, X, spc, nNewton, stage, inletEField, V_gap, Evec, Vvec, zvec,
                   Tvec, Elevec, eFieldvec, Uvec, gapFile, profileFile, failedStage,
                   stage1Grid, stage1X>>

\* line 206 throws: caught at line 209, after both tables were written
SaveFail ==
    /\ pc = "save"
    /\ OuterCatch
    /\ UNCHANGED <<argc, argv, stdin, phi, eField, refine_grid, loglevel, Tad, printedTad,
                   grid, X, spc, nNewton, stage, inletEField, V_gap, Evec, Vvec, zvec,
                   Tvec, Elevec, eFieldvec, Uvec, gapFile, profileFile, snapshot,
                   failedStage, stage1Grid, stage1X>>

----------------------------------------------------------------------------

Next ==
    \/ Main
    \/ ThermoSetup
    \/ ThermoFail
    \/ BuildDomains
    \/ BuildFail
    \/ SetStage1
    \/ NewtonStep
    \/ NewtonConverged
    \/ Refine
    \/ Stage1Converged
    \/ Stage1Failed
    \/ SetEField
    \/ SetStage2
    \/ Stage2Converged
    \/ Stage2Failed
    \/ GapVoltageFailed
    \/ Record
    \/ WriteGapFile
    \/ Extract
    \/ WriteProfile
    \/ Save
    \/ SaveFail

Spec == Init /\ [][Next]_vars

----------------------------------------------------------------------------
(* Properties *)

Range(f) == { f[i] : i \in DOMAIN f }

StrictlyIncreasing(g) == \A i \in 1..(Len(g) - 1) : g[i] < g[i + 1]

NoFileWritten == ~gapFile.written /\ ~profileFile.written /\ ~snapshot.written

AllFilesWritten == gapFile.written /\ profileFile.written /\ snapshot.written

\* the stage 2 solve has ended (converged or failed) and the run is past it
PastStage2 ==
    /\ stage = 2
    /\ pc \in {"record", "writeGap", "extract", "writeProfile", "save", "done"}

\* the thermo set-up threw: the run is over and Tad was never printed
ThermoRejected == pc = "done" /\ ~printedTad

C2_Stage2FailureRecordsNaN ==
    failedStage = 2 =>
        /\ PastStage2
        /\ V_gap = NaN
        /\ pc \in {"extract", "writeProfile", "save", "done"} =>
              gapFile = [written |-> TRUE,
                         rows |-> << [eField |-> eField, gapVoltage |-> NaN] >>]

C2_Witness == failedStage = 2 /\ gapFile.written /\ pc = "done"

\* C3 as stated: after a failure in any stage the finished run has recorded a
\* NaN gap voltage and has reported the adiabatic flame temperature.
C3_AnyStageFailureRecordsNaN ==
    (failedStage # 0 /\ pc = "done") =>
        /\ printedTad
        /\ gapFile.written
        /\ Len(gapFile.rows) = 1
        /\ gapFile.rows[1].gapVoltage = NaN

\* C3 amended: a stage 2 failure is caught and a NaN gap voltage is recorded;
\* a stage 1 failure ends the run with status -1, with no gap voltage recorded
\* and no file written; in both cases the adiabatic flame temperature was
\* printed before the failing solve.
C3_FailureByStage ==
    /\ failedStage = 2 =>
          /\ printedTad
          /\ V_gap.nan
          /\ pc = "done" => (Len(gapFile.rows) = 1 /\ gapFile.rows[1].gapVoltage.nan)
    /\ failedStage = 1 =>
          /\ printedTad
          /\ pc = "done"
          /\ ret = "-1"
          /\ Evec = <<>> /\ Vvec = <<>>
          /\ NoFileWritten

C3_Witness == failedStage = 1 /\ pc = "done" /\ printedTad /\ Len(grid) > nz

\* C4 as stated: when stage 2 fails, the profile table and the snapshot hold
\* the stage 1 converged temperature and velocity at every grid point.
C4_Stage1ResultsPreserved ==
    (failedStage = 2 /\ pc = "done") =>
        /\ Len(profileFile.rows) = Len(stage1Grid)
        /\ \A n \in 1..Len(profileFile.rows) :
              /\ profileFile.rows[n][1] = stage1Grid[n]
              /\ profileFile.rows[n][2] = stage1X[n].T
              /\ profileFile.rows[n][3] = stage1X[n].velocity
        /\ snapshot.written => (snapshot.grid = stage1Grid /\ snapshot.X = stage1X)

\* a finished run whose stage 2 failed after stage 1 converged
C4_FailingRun ==
    failedStage = 2 /\ pc = "done" /\ profileFile.written /\ snapshot.written

\* what the schedule implies of every state
C5_ScheduleState ==
    /\ Solving => stage = (IF pc = "solve1" THEN 1 ELSE 2)
    /\ stage = 2 => (stage1X # <<>> /\ failedStage # 1)
    /\ stage < 2 /\ pc # "setStage2" => inletEField = 0
    /\ stage = 2 => inletEField = eField
    /\ pc \in {"setEField", "setStage2"} =>
          (stage = 1 /\ X = stage1X /\ grid = stage1Grid)
    /\ (pc = "solve2" /\ spc = "newton" /\ nNewton = 0 /\ Len(grid) = Len(stage1Grid)) =>
          X = stage1X

\* what the schedule implies of every step
C5_ScheduleStep ==
    /\ stage' >= stage
    /\ stage' # stage => stage' = stage + 1
    /\ (stage = 1 /\ stage' = 2) =>
          (X' = stage1X /\ grid' = stage1Grid /\ inletEField' = eField /\ pc' = "solve2")

\* C5: the schedule is strictly ordered: stage 2 is set only after the stage 1
\* solve returned; the field strength is applied at the inlet only at the
\* stage 1 -> stage 2 transition; the stage 2 solve starts from the stage 1
\* solution; the stage never goes back from 2 to 1.
C5_StagedSchedule == [](C5_ScheduleState) /\ [][C5_ScheduleStep]_vars

C5_Witness == pc = "solve2" /\ inletEField # 0 /\ X # stage1X /\ Len(grid) > Len(stage1Grid)

\* C6: no output file is written while a solve is in progress or pending: a
\* written file implies that the stage 2 solve has ended, and a run that ends
\* before stage 2 was attempted has written none.
C6_OutputOnlyAfterSolves ==
    /\ gapFile.written => (PastStage2 /\ pc \in {"extract", "writeProfile", "save", "done"})
    /\ profileFile.written => (PastStage2 /\ pc \in {"save", "done"})
    /\ snapshot.written => (PastStage2 /\ pc = "done")
    /\ (Solving \/ stage < 2) => NoFileWritten

C6_Witness == AllFilesWritten /\ pc = "done" /\ nNewton > 0

\* C7: a run that attempted stage 2 writes a gap-voltage record of exactly one
\* row, whose key is the field strength passed to the run and whose value is
\* the gap voltage of that stage 2 solve; Evec and Vvec both have length 1.
C7_OneGapRowPerRun ==
    /\ (stage = 2 /\ pc = "done") => gapFile.written
    /\ pc \in {"writeGap", "extract", "writeProfile", "save"} =>
          (Len(Evec) = 1 /\ Len(Vvec) = 1)
    /\ gapFile.written =>
          /\ Len(Evec) = 1 /\ Len(Vvec) = 1
          /\ Len(gapFile.rows) = 1
          /\ gapFile.rows[1].eField = eField
          /\ gapFile.rows[1].gapVoltage = V_gap
          /\ V_gap = (IF failedStage = 2 THEN NaN ELSE Num(GapSum(grid, X, 1)))

C7_Witness ==
    /\ gapFile.written
    /\ failedStage = 0
    /\ eField # 0
    /\ gapFile.rows[1].gapVoltage.val # 0

\* the extracted arrays are what an extraction from the present state gives
C8_ArraysMatchState ==
    pc \in {"writeProfile", "save"} \/ (pc = "done" /\ profileFile.written) =>
        /\ Len(zvec) = Len(grid) /\ Len(Tvec) = Len(grid) /\ Len(Uvec) = Len(grid)
        /\ Len(Elevec) = Len(grid) /\ Len(eFieldvec) = Len(grid)
        /\ \A n \in 1..Len(grid) :
              /\ zvec[n] = grid[n]
              /\ Tvec[n] = X[n].T
              /\ Uvec[n] = X[n].velocity
              /\ Elevec[n] = X[n].E
              /\ eFieldvec[n] = X[n].eField

\* the table written is the present state, row by row in grid order
C8_TableMatchesState ==
    profileFile.written =>
        /\ Len(profileFile.rows) = Len(grid)
        /\ \A n \in 1..Len(grid) :
              profileFile.rows[n] =
                  <<grid[n], X[n].T, X[n].velocity, X[n].E, X[n].eField>>
        /\ \A n \in 1..(Len(grid) - 1) :
              profileFile.rows[n][1] < profileFile.rows[n + 1][1]

\* extracting and writing leave the solution and the grid alone
C8_ExtractionStep ==
    pc \in {"extract", "writeProfile"} => (X' = X /\ grid' = grid)

\* C8: the profile table has one row per grid point of the final grid, in grid
\* order, with the columns position, temperature, velocity, E, eField; the
\* extracted arrays all have the length of the grid; extraction leaves the
\* solution state alone, so that extracting again gives the same arrays.
C8_ProfileTable ==
    [](C8_ArraysMatchState /\ C8_TableMatchesState) /\ [][C8_ExtractionStep]_vars

C8_Witness ==
    /\ profileFile.written
    /\ Len(grid) > nz
    /\ \E n \in 1..Len(grid) : X[n].eField # 0 /\ X[n].T # X[n].velocity

\* the shape of the grid in every state after setupGrid
C9_GridState ==
    grid # <<>> =>
        /\ StrictlyIncreasing(grid)
        /\ Len(grid) >= 2
        /\ Len(grid) <= MaxPoints
        /\ grid[1] = 0
        /\ grid[Len(grid)] = lz
        /\ \A i \in 0..5 : (i * lz) \div 5 \in Range(grid)
        /\ pc = "setStage1" => (Len(grid) = 6 /\ \A i \in 0..5 : grid[i + 1] = (i * lz) \div 5)

\* a step keeps every point and adds at most one
C9_GridStep ==
    grid # <<>> =>
        /\ Range(grid) \subseteq Range(grid')
        /\ Len(grid') \in {Len(grid), Len(grid) + 1}

C10_ReturnStatusCarriesFailure ==
    pc = "done" =>
        /\ ret = "0" => (failedStage = 0 /\ AllFilesWritten)
        /\ failedStage # 0 => ret = "-1"

====
